---------------------------- MODULE Spec2Model ----------------------------
(***************************************************************************)
(* A model of the document processor (src/processor.py): the orchestrator  *)
(* process_document, the per-format content extractors, the regex/AI       *)
(* entity recogniser, the table reconstructor, the classifier and the      *)
(* summariser.  Texts are strings; Python's str and re operations are      *)
(* modelled character by character.                                        *)
(***************************************************************************)
EXTENDS Integers, Sequences, FiniteSets, TLC

(***************************************************************************)
(* Bounds of the model.                                                    *)
(***************************************************************************)
\* the longest text, in fragments, drawn for the entity recogniser
MaxFrags == 2
\* the longest text, in lines, drawn for the table reconstructor
MaxLines == 4
\* the longest text, in words, drawn for the classifier
MaxWords == 3

(***************************************************************************)
(* Python str operations.  They are written over index sets and by halving *)
(* rather than by recursion on the length of the text.                     *)
(***************************************************************************)
Ch(s, i) == SubSeq(s, i, i)

UpperStr == "ABCDEFGHIJKLMNOPQRSTUVWXYZ"
LowerStr == "abcdefghijklmnopqrstuvwxyz"
DigitStr == "0123456789"

CharsOf(s) == {Ch(s, i) : i \in 1..Len(s)}

Upper == CharsOf(UpperStr)
Letter == CharsOf(UpperStr) \cup CharsOf(LowerStr)
Digit == CharsOf(DigitStr)
\* str.strip() and the regex class \s
Whitespace == {" ", "\t", "\n", "\r", "\f"}
\* the regex class \w
WordChar == Letter \cup Digit \cup {"_"}

SetMin(S) == CHOOSE x \in S : \A y \in S : x <= y
SetMax(S) == CHOOSE x \in S : \A y \in S : y <= x

\* the elements of a set of numbers in increasing order
SortedSeq(S) ==
    [k \in 1..Cardinality(S) |-> CHOOSE x \in S : Cardinality({y \in S : y < x}) = k - 1]

SeqElems(q) == {q[k] : k \in 1..Len(q)}

\* the concatenation of the sequences q[a..b]
RECURSIVE FlattenRange(_, _, _)
FlattenRange(q, a, b) ==
    IF a > b THEN <<>>
    ELSE IF a = b THEN q[a]
    ELSE FlattenRange(q, a, (a + b) \div 2) \o FlattenRange(q, (a + b) \div 2 + 1, b)

Flatten(q) == FlattenRange(q, 1, Len(q))

\* the concatenation of the strings q[a..b]
RECURSIVE ConcatRange(_, _, _)
ConcatRange(q, a, b) ==
    IF a > b THEN ""
    ELSE IF a = b THEN q[a]
    ELSE ConcatRange(q, a, (a + b) \div 2) \o ConcatRange(q, (a + b) \div 2 + 1, b)

\* "".join(q)
StrConcat(q) == ConcatRange(q, 1, Len(q))

\* [x for x in q if x], for a list of strings
SeqFilterNonEmpty(q) ==
    Flatten([k \in 1..Len(q) |-> IF q[k] # "" THEN <<q[k]>> ELSE <<>>])

LowerCh(c) ==
    IF c \in Upper
    THEN Ch(LowerStr, CHOOSE i \in 1..Len(UpperStr) : Ch(UpperStr, i) = c)
    ELSE c

\* str.lower()
StrLower(s) == StrConcat([i \in 1..Len(s) |-> LowerCh(Ch(s, i))])

\* s[i:].startswith(kw), 1-based
StartsWithAt(s, kw, i) ==
    /\ i + Len(kw) - 1 <= Len(s)
    /\ SubSeq(s, i, i + Len(kw) - 1) = kw

\* kw in s
StrContains(s, kw) == \E i \in 1..(Len(s) + 1) : StartsWithAt(s, kw, i)

\* the occurrences of kw counted from position i on, each starting where the
\* last one ended; at is the set of positions where kw occurs
RECURSIVE CountFrom(_, _, _)
CountFrom(at, n, i) ==
    IF \E j \in at : j >= i
    THEN 1 + CountFrom(at, n, SetMin({j \in at : j >= i}) + n)
    ELSE 0

\* s.count(kw): non-overlapping occurrences, kw non-empty
StrCount(s, kw) ==
    CountFrom({i \in 1..Len(s) : StartsWithAt(s, kw, i)}, Len(kw), 1)

\* s.split(sep) for a one-character separator
StrSplit(s, sep) ==
    LET at == SortedSeq({i \in 1..Len(s) : Ch(s, i) = sep})
    IN  [k \in 1..(Len(at) + 1) |->
            SubSeq(s, IF k = 1 THEN 1 ELSE at[k - 1] + 1,
                      IF k > Len(at) THEN Len(s) ELSE at[k] - 1)]

\* s.strip()
StrStrip(s) ==
    LET inner == {i \in 1..Len(s) : Ch(s, i) \notin Whitespace}
    IN  IF inner = {} THEN "" ELSE SubSeq(s, SetMin(inner), SetMax(inner))

\* sep.join(parts)
StrJoin(parts, sep) ==
    StrConcat([k \in 1..Len(parts) |->
                  IF k < Len(parts) THEN parts[k] \o sep ELSE parts[k]])

\* the decimal text of a natural number, str(n)
RECURSIVE NatStr(_)
NatStr(n) ==
    IF n < 10 THEN Ch(DigitStr, n + 1)
    ELSE NatStr(n \div 10) \o Ch(DigitStr, (n % 10) + 1)

\* len(s.split()): the number of whitespace-delimited words
WordCount(s) ==
    Cardinality({i \in 1..Len(s) :
                    /\ Ch(s, i) \notin Whitespace
                    /\ (i = 1 \/ Ch(s, i - 1) \in Whitespace)})

(***************************************************************************)
(* Python re: a backtracking matcher.  RegexEnds(r, s, i) is the sequence   *)
(* of positions at which a match of r starting at position i of s can end, *)
(* in the order the backtracking engine tries them; its first element is   *)
(* the match re reports.                                                   *)
(***************************************************************************)
RLit(str) == [t |-> "lit", s |-> str, cs |-> {}, a |-> <<>>, lo |-> 0, hi |-> 0]
RSet(chars) == [t |-> "set", s |-> "", cs |-> chars, a |-> <<>>, lo |-> 0, hi |-> 0]
RWordBoundary == [t |-> "wb", s |-> "", cs |-> {}, a |-> <<>>, lo |-> 0, hi |-> 0]
RCat(parts) == [t |-> "cat", s |-> "", cs |-> {}, a |-> parts, lo |-> 0, hi |-> 0]
RAlt(parts) == [t |-> "alt", s |-> "", cs |-> {}, a |-> parts, lo |-> 0, hi |-> 0]
\* [chars]{lo,hi}, greedy; hi = -1 is unbounded
RRep(chars, lo, hi) ==
    [t |-> "rep", s |-> "", cs |-> chars, a |-> <<>>, lo |-> lo, hi |-> hi]
\* r?, greedy
ROpt(r) == [t |-> "opt", s |-> "", cs |-> {}, a |-> <<r>>, lo |-> 0, hi |-> 1]
RPlus(chars) == RRep(chars, 1, -1)

IsWordAt(s, i) == i >= 1 /\ i <= Len(s) /\ Ch(s, i) \in WordChar

\* \b at position i: between s[i-1] and s[i]
WordBoundaryAt(s, i) == IsWordAt(s, i - 1) # IsWordAt(s, i)

\* the length of the longest run of characters of cs from position i
RunLength(s, cs, i) ==
    SetMin({j \in i..(Len(s) + 1) : j > Len(s) \/ Ch(s, j) \notin cs}) - i

\* a greedy repetition of a character class gives its longest run back one
\* character at a time
EndsRep(r, s, i) ==
    LET run == RunLength(s, r.cs, i)
        most == IF r.hi >= 0 /\ r.hi < run THEN r.hi ELSE run
    IN  IF most < r.lo THEN <<>>
        ELSE [k \in 1..(most - r.lo + 1) |-> i + most - k + 1]

RECURSIVE RegexEnds(_, _, _), EndsCat(_, _, _, _)
RegexEnds(r, s, i) ==
    CASE r.t = "lit" -> IF StartsWithAt(s, r.s, i) THEN <<i + Len(r.s)>> ELSE <<>>
      [] r.t = "set" -> IF i <= Len(s) /\ Ch(s, i) \in r.cs THEN <<i + 1>> ELSE <<>>
      [] r.t = "wb"  -> IF WordBoundaryAt(s, i) THEN <<i>> ELSE <<>>
      [] r.t = "cat" -> EndsCat(r.a, 1, s, <<i>>)
      [] r.t = "alt" -> Flatten([k \in 1..Len(r.a) |-> RegexEnds(r.a[k], s, i)])
      [] r.t = "opt" -> RegexEnds(r.a[1], s, i) \o <<i>>
      [] r.t = "rep" -> EndsRep(r, s, i)

\* a sequence of parts: each part continues from every end of the parts before
\* it, in the order those ends were tried
EndsCat(parts, k, s, starts) ==
    IF k > Len(parts) \/ starts = <<>> THEN starts
    ELSE EndsCat(parts, k + 1, s,
                 Flatten([j \in 1..Len(starts) |-> RegexEnds(parts[k], s, starts[j])]))

\* the first two elements of a sequence of pairs laid end to end, <<>> if it is empty
FirstPair(found) == IF found = <<>> THEN <<>> ELSE <<found[1], found[2]>>

\* the first end of the body after the group ended at gend, as <<gend, end>>
BodyAfter(gend, ends) == IF ends # <<>> THEN <<gend, ends[1]>> ELSE <<>>

\* the group's ends are tried in order; the first from which the body matches wins
MatchAfter(p, s, gends) ==
    FirstPair(Flatten([k \in 1..Len(gends) |->
                          BodyAfter(gends[k], RegexEnds(p.body, s, gends[k]))]))

\* the first match the engine finds at position i: <<end of group 1, end of match>>,
\* or <<>> when there is none
MatchAt(p, s, i) == MatchAfter(p, s, RegexEnds(p.group, s, i))

\* the matches of a scan from position i: m[j] is MatchAt at j; the scan
\* resumes where a match ended.  Each is <<start, end of group 1, end>>.
RECURSIVE ScanFrom(_, _, _)
ScanFrom(m, at, i) ==
    IF \E j \in at : j >= i
    THEN LET j == SetMin({x \in at : x >= i})
         IN  <<<<j, m[j][1], m[j][2]>>>>
             \o ScanFrom(m, at, IF m[j][2] > j THEN m[j][2] ELSE j + 1)
    ELSE <<>>

ScanAll(m) == ScanFrom(m, {j \in DOMAIN m : m[j] # <<>>}, 1)

Scan(p, s) == ScanAll([j \in 1..(Len(s) + 1) |-> MatchAt(p, s, j)])

\* what findall lists for the matches found: with one capturing group in the
\* pattern, the group's text, not the match's
GroupTexts(p, s, found) ==
    [k \in 1..Len(found) |->
        IF p.hasGroup THEN SubSeq(s, found[k][1], found[k][2] - 1)
                      ELSE SubSeq(s, found[k][1], found[k][3] - 1)]

\* re.findall(p, s): the non-overlapping matches, leftmost first
Findall(p, s) == GroupTexts(p, s, Scan(p, s))

MatchTexts(s, found) == [k \in 1..Len(found) |-> SubSeq(s, found[k][1], found[k][3] - 1)]

\* the whole text of every match, whatever the pattern's groups
WholeMatches(p, s) == MatchTexts(s, Scan(p, s))

\* a pattern without a capturing group
Ungrouped(r) == [hasGroup |-> FALSE, group |-> RCat(<<>>), body |-> r]
\* a pattern that starts with its one capturing group
Grouped(g, r) == [hasGroup |-> TRUE, group |-> g, body |-> r]

(***************************************************************************)
(* DocumentProcessor.indonesian_patterns                                   *)
(***************************************************************************)
RDigits(lo, hi) == RRep(Digit, lo, hi)
RAmount == RPlus(Digit \cup {".", ","})
RSep == ROpt(RSet({"-"} \cup Whitespace))

\* r'\b\d{16}\b'
PatKtp == Ungrouped(RCat(<<RWordBoundary, RDigits(16, 16), RWordBoundary>>))

\* r'\d{2}\.\d{3}\.\d{3}\.\d{1}-\d{3}\.\d{3}'
PatNpwp ==
    Ungrouped(RCat(<<RDigits(2, 2), RLit("."), RDigits(3, 3), RLit("."),
                     RDigits(3, 3), RLit("."), RDigits(1, 1), RLit("-"),
                     RDigits(3, 3), RLit("."), RDigits(3, 3)>>))

\* r'(\+62|08)\d{2,3}[-\s]?\d{3,4}[-\s]?\d{3,4}'
PatPhone ==
    Grouped(RAlt(<<RLit("+62"), RLit("08")>>),
            RCat(<<RDigits(2, 3), RSep, RDigits(3, 4), RSep, RDigits(3, 4)>>))

\* r'\b[A-Za-z0-9._%+-]+@[A-Za-z0-9.-]+\.[A-Z|a-z]{2,}\b'
PatEmail ==
    Ungrouped(RCat(<<RWordBoundary,
                     RPlus(Letter \cup Digit \cup {".", "_", "%", "+", "-"}),
                     RLit("@"),
                     RPlus(Letter \cup Digit \cup {".", "-"}),
                     RLit("."),
                     RRep(Letter \cup {"|"}, 2, -1),
                     RWordBoundary>>))

\* r'Rp\.?\s?[\d.,]+|IDR\s?[\d.,]+'
PatCurrency ==
    Ungrouped(RAlt(<<RCat(<<RLit("Rp"), ROpt(RLit(".")), ROpt(RSet(Whitespace)), RAmount>>),
                     RCat(<<RLit("IDR"), ROpt(RSet(Whitespace)), RAmount>>)>>))

\* r'\d{1,2}[/-]\d{1,2}[/-]\d{4}|\d{4}-\d{2}-\d{2}'
PatDate ==
    Ungrouped(RAlt(<<RCat(<<RDigits(1, 2), RSet({"/", "-"}), RDigits(1, 2),
                            RSet({"/", "-"}), RDigits(4, 4)>>),
                     RCat(<<RDigits(4, 4), RLit("-"), RDigits(2, 2), RLit("-"),
                            RDigits(2, 2)>>)>>))

\* r'PT\.?\s+[A-Z][A-Za-z\s]+|CV\.?\s+[A-Z][A-Za-z\s]+'
PatCompany ==
    Ungrouped(RAlt(<<RCat(<<RLit("PT"), ROpt(RLit(".")), RPlus(Whitespace),
                            RSet(Upper), RPlus(Letter \cup Whitespace)>>),
                     RCat(<<RLit("CV"), ROpt(RLit(".")), RPlus(Whitespace),
                            RSet(Upper), RPlus(Letter \cup Whitespace)>>)>>))

(***************************************************************************)
(* Values.  A list item is a string or an unhashable JSON value (an object *)
(* or an array); a call's outcome is a value or a raised exception.        *)
(***************************************************************************)
Str(v) == [kind |-> "str", v |-> v]
Unhashable == [kind |-> "dict", v |-> "{}"]

StrItems(q) == [k \in 1..Len(q) |-> Str(q[k])]

Returned(v) == [ok |-> TRUE, value |-> v, exc |-> ""]
Raised(msg) == [ok |-> FALSE, value |-> <<>>, exc |-> msg]

NoDuplicates(q) == \A i, j \in 1..Len(q) : q[i] = q[j] => i = j

(***************************************************************************)
(* The AI capability: what ChatCompletion.create and json.loads give for   *)
(* one request.  kind "error": the request raised (network, timeout,       *)
(* auth); "text": the reply is not JSON; "json": the reply parses, to an   *)
(* object (isdict, its members in order) or to another JSON value.         *)
(***************************************************************************)
JList(key, items) == [key |-> key, vt |-> "list", items |-> items, sv |-> ""]
JString(key, text) == [key |-> key, vt |-> "str", items |-> <<>>, sv |-> text]

ReplyError == [kind |-> "error", isdict |-> FALSE, pairs |-> <<>>]
ReplyNotJson == [kind |-> "text", isdict |-> FALSE, pairs |-> <<>>]
ReplyJsonArray == [kind |-> "json", isdict |-> FALSE, pairs |-> <<>>]
ReplyObject(pairs) == [kind |-> "json", isdict |-> TRUE, pairs |-> pairs]

\* json.loads(result) for a result that parses
JsonValue(reply) == [isdict |-> reply.isdict, pairs |-> reply.pairs]
EmptyDict == [isdict |-> TRUE, pairs |-> <<>>]

EntityReplies ==
    { ReplyError, ReplyNotJson, ReplyJsonArray, ReplyObject(<<>>),
      ReplyObject(<<JList("people", <<Str("Budi"), Str("Budi")>>),
                    JList("organizations", <<Str("PT Maju Jaya")>>)>>),
      ReplyObject(<<JList("people", <<Unhashable>>)>>),
      ReplyObject(<<JString("dates", "2024"), JList("vendors", <<Str("x")>>),
                    JList("monetary_amounts", <<Str("Rp 150.000")>>)>>),
      ReplyObject(<<JList("people", <<Str("Ani")>>),
                    JList("contact_info", <<Str("a@b.com")>>),
                    JList("locations", <<Str("Jakarta")>>)>>) }

(***************************************************************************)
(* _extract_entities and _extract_entities_with_ai                         *)
(***************************************************************************)
EmptyBundle ==
    [people |-> <<>>, organizations |-> <<>>, dates |-> <<>>,
     monetary_amounts |-> <<>>, locations |-> <<>>,
     contact_info |-> [emails |-> <<>>, phones |-> <<>>],
     id_numbers |-> <<>>]

\* the keys of the bundle, in the dict's insertion order
BundleKeys == <<"people", "organizations", "dates", "monetary_amounts",
                "locations", "contact_info", "id_numbers">>
ListKeys == {"people", "organizations", "dates", "monetary_amounts",
             "locations", "id_numbers"}

\* the regex pass (if indonesian_mode), each category extended by re.findall's list
RegexPass(entities, content) ==
    [entities EXCEPT
       !.id_numbers = @ \o StrItems(Findall(PatKtp, content)),
       !.contact_info = [phones |-> @.phones \o StrItems(Findall(PatPhone, content)),
                         emails |-> @.emails \o StrItems(Findall(PatEmail, content))],
       !.monetary_amounts = @ \o StrItems(Findall(PatCurrency, content)),
       !.dates = @ \o StrItems(Findall(PatDate, content)),
       !.organizations = @ \o StrItems(Findall(PatCompany, content))]

\* _extract_entities_with_ai: {} without a client or on any exception of the
\* request or of json.loads, else whatever JSON value the reply parses to
ExtractEntitiesWithAI(client, reply) ==
    IF ~client THEN EmptyDict
    ELSE IF reply.kind # "json" THEN EmptyDict
    ELSE JsonValue(reply)

\* the merge loop over ai_entities.items(): a list is appended to a key the
\* bundle has; list.extend on the contact_info dict raises, which ends the loop
RECURSIVE MergeFrom(_, _, _)
MergeFrom(entities, pairs, k) ==
    IF k > Len(pairs) THEN entities
    ELSE LET p == pairs[k]
         IN  IF p.key \in SeqElems(BundleKeys) /\ p.vt = "list"
             THEN IF p.key \in ListKeys
                  THEN MergeFrom([entities EXCEPT ![p.key] = @ \o p.items], pairs, k + 1)
                  ELSE entities
             ELSE MergeFrom(entities, pairs, k + 1)

\* the guarded AI pass of _extract_entities: .items() of a value that is no
\* dict raises inside the try, and the bundle stays as it was
AIPass(entities, client, reply) ==
    IF ~client THEN entities
    ELSE LET ai_entities == ExtractEntitiesWithAI(client, reply)
         IN  IF ~ai_entities.isdict THEN entities
             ELSE MergeFrom(entities, ai_entities.pairs, 1)

\* list(set(q)): the elements of q, each once.  The order of a set's elements is
\* not fixed by the language; the model lists them by first occurrence, and the
\* properties compare such lists as sets only
Dedup(q) ==
    Flatten([k \in 1..Len(q) |->
                IF \E j \in 1..(k - 1) : q[j] = q[k] THEN <<>> ELSE <<q[k]>>])

\* list(set(value)): set() raises TypeError on an unhashable element.  The
\* order of the result is the set's, which the program does not control; the
\* model lists the elements in order of first occurrence.
ListOfSet(q) ==
    IF Unhashable \in SeqElems(q) THEN Raised("unhashable type: 'dict'")
    ELSE Returned(Dedup(q))

\* the "Clean duplicates" loop, outside any try
RECURSIVE CleanFrom(_, _)
CleanFrom(entities, k) ==
    IF k > Len(BundleKeys) THEN Returned(entities)
    ELSE LET key == BundleKeys[k]
         IN  IF key \in ListKeys
             THEN LET r == ListOfSet(entities[key])
                  IN  IF r.ok
                      THEN CleanFrom([entities EXCEPT ![key] = r.value], k + 1)
                      ELSE Raised(r.exc)
             ELSE LET e == ListOfSet(entities.contact_info.emails)
                      ph == ListOfSet(entities.contact_info.phones)
                  IN  IF ~e.ok THEN Raised(e.exc)
                      ELSE IF ~ph.ok THEN Raised(ph.exc)
                      ELSE CleanFrom([entities EXCEPT
                                        !.contact_info = [emails |-> e.value,
                                                          phones |-> ph.value]],
                                     k + 1)

CleanDuplicates(entities) == CleanFrom(entities, 1)

\* a request is issued by _extract_entities_with_ai when a client is set
\* a request made whether or not the instance has a client
EntityRequestAlways(content, client) == content # ""

EntityRequestIssued(content, client) == content # "" /\ client

ExtractEntities(content, indonesian_mode, client, reply) ==
    IF content = "" THEN Returned(EmptyBundle)
    ELSE CleanDuplicates(
             AIPass(IF indonesian_mode THEN RegexPass(EmptyBundle, content)
                                       ELSE EmptyBundle,
                    client, reply))

(***************************************************************************)
(* _extract_tables_from_content                                            *)
(***************************************************************************)
StripAll(q) == [k \in 1..Len(q) |-> StrStrip(q[k])]

\* [cell.strip() for cell in parts if cell.strip()]
StrippedCells(parts) == SeqFilterNonEmpty(StripAll(parts))

\* re.split(r'\s{2,}', s): s cut at every maximal whitespace run of length >= 2
ReSplitSpaces(s) ==
    LET runs == SortedSeq({i \in 1..Len(s) :
                              /\ Ch(s, i) \in Whitespace
                              /\ (i = 1 \/ Ch(s, i - 1) \notin Whitespace)
                              /\ RunLength(s, Whitespace, i) >= 2})
    IN  [k \in 1..(Len(runs) + 1) |->
            SubSeq(s, IF k = 1 THEN 1
                      ELSE runs[k - 1] + RunLength(s, Whitespace, runs[k - 1]),
                      IF k > Len(runs) THEN Len(s) ELSE runs[k] - 1)]

\* "looks like a table row": '|' in line or '\t' in line or '  ' in line
IsCandidateRow(line) ==
    StrContains(line, "|") \/ StrContains(line, "\t") \/ StrContains(line, "  ")

\* RowCells without cell.strip() on the cells it keeps
RowCellsUnstripped(line) ==
    IF StrContains(line, "|") THEN SeqFilterNonEmpty(StrSplit(line, "|"))
    ELSE IF StrContains(line, "\t") THEN SeqFilterNonEmpty(StrSplit(line, "\t"))
    ELSE SeqFilterNonEmpty(ReSplitSpaces(line))

\* the cells of a candidate row: split by pipe, else tab, else runs of spaces
RowCells(line) ==
    IF StrContains(line, "|") THEN StrippedCells(StrSplit(line, "|"))
    ELSE IF StrContains(line, "\t") THEN StrippedCells(StrSplit(line, "\t"))
    ELSE StrippedCells(ReSplitSpaces(line))

\* FlushTable keeping a buffer of a single row
FlushTableAnyLength(tbls, current) ==
    IF current # <<>> THEN Append(tbls, current) ELSE tbls

\* if current_table and len(current_table) > 1: tables.append(current_table)
FlushTable(tbls, current) ==
    IF current # <<>> /\ Len(current) > 1 THEN Append(tbls, current) ELSE tbls

\* an iteration that also flushes on a candidate line of fewer than 2 cells
TableLineStepFlushOnSkip(st, line) ==
    IF IsCandidateRow(line) /\ Len(RowCells(line)) > 1
    THEN [st EXCEPT !.current_table = Append(@, RowCells(line))]
    ELSE [tables |-> FlushTable(st.tables, st.current_table), current_table |-> <<>>]

\* one iteration of the loop over the lines; st = [tables, current_table]
TableLineStep(st, line) ==
    IF IsCandidateRow(line)
    THEN LET cells == RowCells(line)
         IN  IF Len(cells) > 1
             THEN [st EXCEPT !.current_table = Append(@, cells)]
             ELSE st
    ELSE [tables |-> FlushTable(st.tables, st.current_table), current_table |-> <<>>]

RECURSIVE TableLoop(_, _, _)
TableLoop(st, lns, k) ==
    IF k > Len(lns) THEN st ELSE TableLoop(TableLineStep(st, lns[k]), lns, k + 1)

ExtractTablesFromContent(content) ==
    LET st == TableLoop([tables |-> <<>>, current_table |-> <<>>],
                        StrSplit(content, "\n"), 1)
    IN  FlushTable(st.tables, st.current_table)

(***************************************************************************)
(* _classify_document and _get_subcategory                                 *)
(***************************************************************************)
Classifications ==
    << [doc_type |-> "invoice",
        keywords |-> <<"invoice", "faktur", "tagihan", "bill", "pembayaran">>],
       [doc_type |-> "contract",
        keywords |-> <<"contract", "kontrak", "perjanjian", "agreement">>],
       [doc_type |-> "receipt",
        keywords |-> <<"receipt", "kwitansi", "bukti", "struk">>],
       [doc_type |-> "letter", keywords |-> <<"surat", "letter", "memo">>],
       [doc_type |-> "report", keywords |-> <<"report", "laporan", "analisis">>],
       [doc_type |-> "certificate",
        keywords |-> <<"certificate", "sertifikat", "ijazah">>],
       [doc_type |-> "id_document",
        keywords |-> <<"ktp", "sim", "passport", "identitas">>] >>

\* score += content_lower.count(keyword); score += filename_lower.count(keyword) * 2
RECURSIVE KeywordScore(_, _, _, _)
KeywordScore(keywords, content_lower, filename_lower, k) ==
    IF k > Len(keywords) THEN 0
    ELSE StrCount(content_lower, keywords[k])
         + StrCount(filename_lower, keywords[k]) * 2
         + KeywordScore(keywords, content_lower, filename_lower, k + 1)

\* the scores dict, in the insertion order of classifications
Scores(content, filename) ==
    [k \in 1..Len(Classifications) |->
        [doc_type |-> Classifications[k].doc_type,
         score |-> KeywordScore(Classifications[k].keywords,
                                StrLower(content), StrLower(filename), 1)]]

\* a maximum taken with the last key of a tie, not the first
BestIndexLast(scores) ==
    CHOOSE k \in 1..Len(scores) :
        /\ \A j \in 1..Len(scores) : scores[j].score <= scores[k].score
        /\ \A j \in (k + 1)..Len(scores) : scores[j].score < scores[k].score

\* max(scores, key=scores.get): the first key, in insertion order, of maximal score
BestIndex(scores) ==
    CHOOSE k \in 1..Len(scores) :
        /\ \A j \in 1..Len(scores) : scores[j].score <= scores[k].score
        /\ \A j \in 1..(k - 1) : scores[j].score < scores[k].score

\* score / 10 without the saturation at 1.0
ConfidenceUnsaturated(score) == [num |-> score, den |-> 10]

\* min(score / 10, 1.0), as a fraction of 10
Confidence(score) == [num |-> IF score >= 10 THEN 10 ELSE score, den |-> 10]

GetSubcategory(category, content) ==
    LET content_lower == StrLower(content)
    IN  CASE category = "invoice" ->
               IF StrContains(content_lower, "pajak") \/ StrContains(content_lower, "tax")
               THEN "tax_invoice"
               ELSE IF StrContains(content_lower, "pro forma") THEN "proforma_invoice"
               ELSE "standard_invoice"
          [] category = "contract" ->
               IF StrContains(content_lower, "kerja")
                  \/ StrContains(content_lower, "employment")
               THEN "employment_contract"
               ELSE IF StrContains(content_lower, "sewa")
                       \/ StrContains(content_lower, "rental")
               THEN "rental_agreement"
               ELSE "service_contract"
          [] category = "letter" ->
               IF StrContains(content_lower, "resign")
                  \/ StrContains(content_lower, "pengunduran")
               THEN "resignation_letter"
               ELSE IF StrContains(content_lower, "lamaran")
                       \/ StrContains(content_lower, "application")
               THEN "application_letter"
               ELSE "business_letter"
          [] OTHER -> "general"

\* "Find best match": the else branch is taken only by an empty scores dict
BestMatch(scores) ==
    IF scores # <<>>
    THEN [best_type |-> scores[BestIndex(scores)].doc_type,
          confidence |-> Confidence(scores[BestIndex(scores)].score)]
    ELSE [best_type |-> "unknown", confidence |-> [num |-> 0, den |-> 10]]

ClassifyDocument(content, filename) ==
    LET best == BestMatch(Scores(content, filename))
    IN  [category |-> best.best_type,
         confidence |-> best.confidence,
         subcategory |-> GetSubcategory(best.best_type, content)]

(***************************************************************************)
(* _generate_summary and _generate_simple_summary.  A summary is a JSON    *)
(* value: the heuristic's dict, or whatever the AI reply parses to.        *)
(***************************************************************************)
SummaryDict(executive_summary, key_points, urgency_level, sentiment) ==
    [isdict |-> TRUE,
     pairs |-> <<JString("executive_summary", executive_summary),
                 JList("key_points", key_points),
                 JString("urgency_level", urgency_level),
                 JString("sentiment", sentiment)>>]

UrgencyWords == {"urgent", "penting", "segera", "deadline", "asap"}
PositiveWords == {"good", "baik", "sukses", "berhasil", "positif"}
NegativeWords == {"bad", "buruk", "gagal", "masalah", "negatif"}

\* sum(1 for word in words if word in content.lower())
HitCount(words, content) ==
    Cardinality({w \in words : StrContains(StrLower(content), w)})

\* len([s for s in content.split('.') if s.strip()])
SentenceCount(content) ==
    LET parts == StrSplit(content, ".")
    IN  Cardinality({k \in 1..Len(parts) : StrStrip(parts[k]) # ""})

\* the urgency test without content.lower()
SimpleUrgencyCaseSensitive(content) ==
    IF \E w \in UrgencyWords : StrContains(content, w) THEN "HIGH" ELSE "LOW"

SimpleUrgency(content) ==
    IF \E w \in UrgencyWords : StrContains(StrLower(content), w) THEN "HIGH" ELSE "LOW"

SimpleSentiment(content) ==
    LET pos_count == HitCount(PositiveWords, content)
        neg_count == HitCount(NegativeWords, content)
    IN  IF pos_count > neg_count THEN "POSITIVE"
        ELSE IF neg_count > pos_count THEN "NEGATIVE"
        ELSE "NEUTRAL"

GenerateSimpleSummary(content) ==
    IF content = ""
    THEN SummaryDict("No content available for summary", <<>>, "LOW", "NEUTRAL")
    ELSE LET word_count == WordCount(content)
         IN  SummaryDict(
                 "Document contains " \o NatStr(word_count) \o " words across "
                     \o NatStr(SentenceCount(content)) \o " sentences.",
                 <<Str("Document length: " \o NatStr(word_count) \o " words"),
                   Str("Estimated reading time: " \o NatStr(word_count \div 200)
                       \o " minutes")>>,
                 SimpleUrgency(content),
                 SimpleSentiment(content))

\* a request is issued by _generate_summary when a client is set and the text non-empty
SummaryRequestIssued(content, client) == client /\ content # ""

\* _generate_summary giving an empty dict, not the heuristic, when the AI call fails
GenerateSummaryNoFallback(content, client, reply) ==
    IF ~client \/ content = "" THEN GenerateSimpleSummary(content)
    ELSE IF reply.kind = "json" THEN JsonValue(reply)
    ELSE EmptyDict

GenerateSummary(content, client, reply) ==
    IF ~client \/ content = "" THEN GenerateSimpleSummary(content)
    ELSE IF reply.kind = "json" THEN JsonValue(reply)
    ELSE GenerateSimpleSummary(content)

SummaryReplies ==
    { ReplyError, ReplyNotJson, ReplyJsonArray,
      ReplyObject(<<JString("executive_summary", "Tagihan jatuh tempo."),
                    JList("key_points", <<Str("bayar")>>),
                    JString("urgency_level", "CRITICAL"),
                    JString("sentiment", "NEGATIVE")>>),
      ReplyObject(<<JString("executive_summary", "ok"),
                    JString("urgency_level", "SOON")>>) }

(***************************************************************************)
(* The content extractors.  A file is its path and what the file system    *)
(* and the format parser give for it: missing (os.path.getsize raises),    *)
(* throws ("none", "open": the parser raises before any metadata update,   *)
(* "late": after it), and the parsed document (PDF pages, DOCX paragraphs  *)
(* and tables, image attributes).  An absent text or cell (None) is "".    *)
(***************************************************************************)
\* s.rfind(c) + 1
LastIndexOf(s, c) ==
    IF \E i \in 1..Len(s) : Ch(s, i) = c
    THEN SetMax({i \in 1..Len(s) : Ch(s, i) = c})
    ELSE 0

\* os.path.basename
Basename(path) == SubSeq(path, LastIndexOf(path, "/") + 1, Len(path))

\* os.path.splitext(path)[1]: from the last dot of the basename, leading dots apart
SplitExt(path) ==
    LET base == Basename(path)
        d == LastIndexOf(base, ".")
    IN  IF d > 0 /\ \E i \in 1..(d - 1) : Ch(base, i) # "."
        THEN SubSeq(base, d, Len(base))
        ELSE ""

UpdateMeta(metadata, more) == more @@ metadata

\* " | ".join(row)
JoinRow(row) == StrJoin(row, " | ")

RECURSIVE PdfTableRows(_, _)
PdfTableRows(table, r) ==
    IF r > Len(table) THEN ""
    ELSE (IF table[r] # <<>> THEN JoinRow(table[r]) \o "\n" ELSE "")
         \o PdfTableRows(table, r + 1)

RECURSIVE PdfPageTables(_, _, _)
PdfPageTables(tbls, page_num, i) ==
    IF i > Len(tbls) THEN <<>>
    ELSE (IF tbls[i] # <<>>
          THEN <<"\n[Table " \o NatStr(i) \o " - Page " \o NatStr(page_num) \o "]\n"
                 \o PdfTableRows(tbls[i], 1)>>
          ELSE <<>>)
         \o PdfPageTables(tbls, page_num, i + 1)

RECURSIVE PdfParts(_, _)
PdfParts(pages, n) ==
    IF n > Len(pages) THEN <<>>
    ELSE (IF pages[n].text # "" /\ StrStrip(pages[n].text) # ""
          THEN <<"[Page " \o NatStr(n) \o "]\n" \o pages[n].text>>
          ELSE <<>>)
         \o PdfPageTables(pages[n].tables, n, 1)
         \o PdfParts(pages, n + 1)

RECURSIVE PdfTablesFound(_, _)
PdfTablesFound(pages, n) ==
    IF n > Len(pages) THEN 0
    ELSE Len(pages[n].tables) + PdfTablesFound(pages, n + 1)

ExtractPdfPdfplumber(file, metadata) ==
    CASE file.throws = "open" ->
           [content |-> "Error extracting PDF: " \o file.msg, metadata |-> metadata]
      [] file.throws = "late" ->
           [content |-> "Error extracting PDF: " \o file.msg,
            metadata |-> UpdateMeta(metadata, [pages |-> Len(file.pages),
                                               pdf_info |-> "{}"])]
      [] OTHER ->
           [content |-> StrJoin(PdfParts(file.pages, 1), "\n\n"),
            metadata |-> UpdateMeta(metadata,
                                    [pages |-> Len(file.pages), pdf_info |-> "{}",
                                     tables_found |-> PdfTablesFound(file.pages, 1)])]

RECURSIVE DocxParagraphs(_, _)
DocxParagraphs(paragraphs, k) ==
    IF k > Len(paragraphs) THEN <<>>
    ELSE (IF StrStrip(paragraphs[k]) # "" THEN <<paragraphs[k]>> ELSE <<>>)
         \o DocxParagraphs(paragraphs, k + 1)

\* table_data: [cell.text.strip() for cell in row.cells] for each row
DocxTableData(table) == [r \in 1..Len(table) |-> StripAll(table[r])]

RECURSIVE DocxTables(_, _)
DocxTables(tbls, i) ==
    IF i > Len(tbls) THEN <<>>
    ELSE (IF DocxTableData(tbls[i]) # <<>> THEN <<DocxTableData(tbls[i])>> ELSE <<>>)
         \o DocxTables(tbls, i + 1)

RECURSIVE DocxRowParts(_, _)
DocxRowParts(table, r) ==
    IF r > Len(table) THEN <<>>
    ELSE <<JoinRow(table[r])>> \o DocxRowParts(table, r + 1)

RECURSIVE DocxTableParts(_, _)
DocxTableParts(tbls, i) ==
    IF i > Len(tbls) THEN <<>>
    ELSE <<"Table " \o NatStr(i) \o ":">> \o DocxRowParts(tbls[i], 1) \o <<"">>
         \o DocxTableParts(tbls, i + 1)

\* the parts of the text are joined by a blank line, the rows of a table included
DocxContent(paragraphs, tbls) ==
    StrJoin(DocxParagraphs(paragraphs, 1)
            \o (IF tbls # <<>> THEN <<"\n[TABLES]\n">> \o DocxTableParts(tbls, 1)
                ELSE <<>>),
            "\n\n")

ExtractDocx(file, metadata) ==
    IF file.throws # "none"
    THEN [content |-> "Error extracting DOCX: " \o file.msg, metadata |-> metadata]
    ELSE LET tbls == DocxTables(file.tables, 1)
         IN  [content |-> DocxContent(file.paragraphs, tbls),
              metadata |-> UpdateMeta(metadata, [paragraphs |-> Len(file.paragraphs),
                                                 tables |-> Len(tbls)])]

\* _extract_image_basic wording its error like the PDF and DOCX extractors
ExtractImageBasicAsExtracting(file, metadata) ==
    IF file.throws # "none"
    THEN [content |-> "Error extracting IMAGE: " \o file.msg, metadata |-> metadata]
    ELSE [content |-> "Image uploaded", metadata |-> metadata]

ExtractImageBasic(file, metadata) ==
    IF file.throws # "none"
    THEN [content |-> "Error processing image: " \o file.msg, metadata |-> metadata]
    ELSE [content |-> "Image uploaded: " \o NatStr(file.width) \o "x"
                      \o NatStr(file.height) \o " " \o file.format
                      \o "\nNote: OCR not available in cloud version",
          metadata |-> UpdateMeta(metadata, [width |-> file.width, height |-> file.height,
                                             format |-> file.format, mode |-> "RGB"])]

\* _extract_content: its own exceptions (getsize, unsupported type) are raised
ExtractContent(file) ==
    LET file_ext == StrLower(SplitExt(file.path))
        metadata == [filename |-> Basename(file.path), file_type |-> file_ext,
                     file_size |-> file.size]
    IN  IF file.missing
        THEN Raised("[Errno 2] No such file or directory: '" \o file.path \o "'")
        ELSE IF file_ext = ".pdf" THEN Returned(ExtractPdfPdfplumber(file, metadata))
        ELSE IF file_ext \in {".docx", ".doc"} THEN Returned(ExtractDocx(file, metadata))
        ELSE IF file_ext \in {".png", ".jpg", ".jpeg", ".tiff", ".bmp"}
             THEN Returned(ExtractImageBasic(file, metadata))
        ELSE Raised("Unsupported file type: " \o file_ext)

\* the files of the model
File(path) ==
    [path |-> path, missing |-> FALSE, size |-> 1024, throws |-> "none", msg |-> "",
     pages |-> <<>>, paragraphs |-> <<>>, tables |-> <<>>,
     width |-> 0, height |-> 0, format |-> ""]

Files ==
    { [File("/tmp/invoice.pdf") EXCEPT
         !.pages = << [text |-> "Invoice Rp 5.000",
                       tables |-> << <<<<"a", "b">>, <<"c", "">>>> >>] >>],
      [File("/tmp/empty.pdf") EXCEPT !.pages = << [text |-> "", tables |-> <<>>] >>],
      [File("/tmp/broken.PDF") EXCEPT !.throws = "late", !.msg = "No /Root object"],
      [File("/tmp/surat.docx") EXCEPT
         !.paragraphs = <<"Surat segera", " ">>,
         !.tables = << <<<<"A", "B">>, <<"C", "D">>>> >>],
      [File("/tmp/blank.docx") EXCEPT !.paragraphs = <<"  ">>],
      [File("/tmp/bad.doc") EXCEPT !.throws = "open", !.msg = "Package not found"],
      [File("/tmp/scan.png") EXCEPT !.width = 64, !.height = 48, !.format = "PNG"],
      [File("/tmp/scan.jpg") EXCEPT !.throws = "open", !.msg = "cannot identify image"],
      File("/tmp/notes.txt"),
      [File("/tmp/gone.pdf") EXCEPT !.missing = TRUE] }

(***************************************************************************)
(* The state.                                                              *)
(***************************************************************************)
VARIABLES
    pc,             \* where the current call is
    proc,           \* the DocumentProcessor instance the call is made on
    file,           \* process_document's file_path, with what the file holds
    options,        \* process_document's options
    api_key,        \* openai.api_key, module-wide
    openai_client,  \* per instance: whether self.openai_client is set
    content,        \* the extracted text
    metadata,       \* the extracted metadata
    result,         \* the value the call returns
    raised,         \* whether an exception left the call
    fault,          \* the message of the exception raised inside the call, "" if none
    requests,       \* the AI requests the call has issued
    ai_reply,       \* the last reply of the AI capability
    entities,       \* _extract_entities' bundle
    lines,          \* _extract_tables_from_content's lines
    line_no,        \* the index of the line its loop is at
    current_table,  \* its open buffer
    tables          \* its completed tables

callVars == <<proc, file, options, metadata, result, raised, fault, requests>>
cfgVars == <<api_key, openai_client>>
tblVars == <<lines, line_no, current_table, tables>>
vars == <<pc, proc, file, options, api_key, openai_client, content, metadata, result,
          raised, fault, requests, ai_reply, entities, lines, line_no, current_table,
          tables>>

Procs == {"p1", "p2"}
\* os.getenv("OPENAI_API_KEY") unset
NoKey == ""
NoReply == [kind |-> "none", isdict |-> FALSE, pairs |-> <<>>]
NoFile == File("")

OptionKeys == {"extract_entities", "generate_summary", "extract_tables", "indonesian_mode"}
\* the options dicts of the model: none given (options=None, every default), or
\* all four keys given, as app.py passes them
OptionSets == {<<>>} \cup [OptionKeys -> BOOLEAN]

\* dict.get that ignores the default of an absent key
DictGetNoDefault(d, key, default) == IF key \in DOMAIN d THEN d[key] ELSE FALSE

\* dict.get(key, default)
DictGet(d, key, default) == IF key \in DOMAIN d THEN d[key] ELSE default

\* _setup_openai: the client is set when the environment holds a key
SetupOpenai(env_key) == env_key # NoKey

\* the instances are constructed: __init__ runs _setup_openai
Constructed(env_key) ==
    /\ api_key = env_key
    /\ openai_client = [p \in Procs |-> SetupOpenai(env_key)]

\* no call of process_document is under way
NoCall ==
    /\ proc = "p1"
    /\ file = NoFile
    /\ metadata = <<>>
    /\ result = <<>>
    /\ raised = FALSE
    /\ fault = ""
    /\ requests = <<>>
    /\ ai_reply = NoReply

NoTableScan ==
    /\ lines = <<>>
    /\ line_no = 1
    /\ current_table = <<>>
    /\ tables = <<>>

\* a boundary that lets the exception through to the caller
ErrorBoundaryReraise(msg) == [result |-> <<>>, raised |-> TRUE]

(***************************************************************************)
(* process_document, one action per step of the pipeline.                  *)
(***************************************************************************)
\* except Exception as e: return {"error": str(e)}
ErrorBoundary(msg) == [result |-> [error |-> msg], raised |-> FALSE]

\* an empty extraction reported with the partial result attached
NoContentResultWithContent ==
    [error |-> "No content extracted from document", content |-> ""]

\* return {"error": "No content extracted from document"}
NoContentResult == [error |-> "No content extracted from document"]

ExtractedAt == "2026-01-01T00:00:00"

\* an exception inside the try block ends the call at the boundary
Fails(msg) ==
    /\ pc' = "Failed"
    /\ fault' = msg
    /\ result' = ErrorBoundary(msg).result
    /\ raised' = ErrorBoundary(msg).raised

Init ==
    /\ pc = "Idle"
    /\ \E env_key \in {NoKey, "sk-env"} : Constructed(env_key)
    /\ NoCall
    /\ options = <<>>
    /\ content = ""
    /\ entities = EmptyBundle
    /\ NoTableScan

Call(p, f, o) ==
    /\ pc = "Idle"
    /\ pc' = "Extracting"
    /\ proc' = p
    /\ file' = f
    /\ options' = o
    /\ UNCHANGED <<content, metadata, result, raised, fault, requests, ai_reply>>
    /\ UNCHANGED <<cfgVars, entities, tblVars>>

Extract ==
    /\ pc = "Extracting"
    /\ \E r \in {ExtractContent(file)} :
           IF ~r.ok
           THEN Fails(r.exc) /\ UNCHANGED <<content, metadata>>
           ELSE /\ content' = r.value.content
                /\ metadata' = r.value.metadata
                /\ UNCHANGED <<raised, fault>>
                /\ IF r.value.content = ""
                   THEN pc' = "Failed" /\ result' = NoContentResult
                   ELSE /\ pc' = "Entities"
                        /\ result' = [content |-> r.value.content,
                                      metadata |-> r.value.metadata,
                                      extracted_at |-> ExtractedAt]
    /\ UNCHANGED <<proc, file, options, requests, ai_reply, cfgVars, entities, tblVars>>

\* the replies the AI capability gives in a call of process_document
CallEntityReplies ==
    { ReplyError,
      ReplyObject(<<JList("people", <<Str("Budi"), Str("Budi")>>),
                    JList("organizations", <<Str("PT Maju Jaya")>>)>>),
      ReplyObject(<<JList("people", <<Unhashable>>)>>) }

CallSummaryReplies ==
    { ReplyNotJson,
      ReplyObject(<<JString("executive_summary", "Tagihan jatuh tempo."),
                    JList("key_points", <<Str("bayar")>>),
                    JString("urgency_level", "CRITICAL"),
                    JString("sentiment", "NEGATIVE")>>) }

\* the replies a step can get: one per request it issues
RepliesTo(issued, replies) == IF issued THEN replies ELSE {NoReply}

Request(step) == [step |-> step, key |-> api_key]

StepEntities ==
    /\ pc = "Entities"
    /\ IF DictGet(options, "extract_entities", TRUE)
       THEN \E reply \in RepliesTo(EntityRequestIssued(content, openai_client[proc]),
                                   CallEntityReplies) :
            \E r \in {ExtractEntities(content, DictGet(options, "indonesian_mode", TRUE),
                                      openai_client[proc], reply)} :
                  /\ ai_reply' = reply
                  /\ requests' = IF reply # NoReply
                                 THEN Append(requests, Request("entities"))
                                 ELSE requests
                  /\ IF r.ok
                     THEN /\ result' = ("entities" :> r.value) @@ result
                          /\ pc' = "Summary"
                          /\ UNCHANGED <<raised, fault>>
                     ELSE Fails(r.exc)
       ELSE /\ pc' = "Summary"
            /\ UNCHANGED <<result, raised, fault, requests, ai_reply>>
    /\ UNCHANGED <<proc, file, options, content, metadata, cfgVars, entities, tblVars>>

StepSummary ==
    /\ pc = "Summary"
    /\ IF DictGet(options, "generate_summary", TRUE)
       THEN \E reply \in RepliesTo(SummaryRequestIssued(content, openai_client[proc]),
                                   CallSummaryReplies) :
              /\ ai_reply' = reply
              /\ requests' = IF reply # NoReply
                             THEN Append(requests, Request("summary"))
                             ELSE requests
              /\ result' = ("summary" :> GenerateSummary(content, openai_client[proc],
                                                         reply)) @@ result
       ELSE UNCHANGED <<result, requests, ai_reply>>
    /\ pc' = "Tables"
    /\ UNCHANGED <<proc, file, options, content, metadata, raised, fault, cfgVars,
                   entities, tblVars>>

StepTables ==
    /\ pc = "Tables"
    /\ result' = IF DictGet(options, "extract_tables", TRUE)
                 THEN ("tables" :> ExtractTablesFromContent(content)) @@ result
                 ELSE result
    /\ pc' = "Classify"
    /\ UNCHANGED <<proc, file, options, content, metadata, raised, fault, requests,
                   ai_reply, cfgVars, entities, tblVars>>

StepClassify ==
    /\ pc = "Classify"
    /\ result' = ("classification" :>
                    ClassifyDocument(content, DictGet(metadata, "filename", "")))
                 @@ result
    /\ pc' = "Done"
    /\ UNCHANGED <<proc, file, options, content, metadata, raised, fault, requests,
                   ai_reply, cfgVars, entities, tblVars>>

\* the caller takes the result; the processor keeps nothing of the call
Return ==
    /\ pc \in {"Done", "Failed"}
    /\ pc' = "Idle"
    /\ file' = NoFile
    /\ options' = <<>>
    /\ content' = ""
    /\ metadata' = <<>>
    /\ result' = <<>>
    /\ raised' = FALSE
    /\ fault' = ""
    /\ requests' = <<>>
    /\ ai_reply' = NoReply
    /\ proc' = "p1"
    /\ UNCHANGED <<cfgVars, entities, tblVars>>

Next ==
    \/ \E f \in Files, o \in OptionSets : Call("p1", f, o)
    \/ Extract
    \/ StepEntities
    \/ StepSummary
    \/ StepTables
    \/ StepClassify
    \/ Return

Spec == Init /\ [][Next]_vars

(***************************************************************************)
(* _extract_entities on its own, one action per pass, over texts put       *)
(* together from fragments.                                                *)
(***************************************************************************)
SpecExampleText ==
    "urgent: segera kirim invoice, Rp 150.000, contact 081234567890, email a@b.com"

EntityFrags ==
    {"Rp 150.000", " 081234567890", " a@b.com", "PT Maju ", " 12/01/2024",
     " 3201234567890123"}

RECURSIVE FragTexts(_)
FragTexts(n) ==
    IF n = 0 THEN {""}
    ELSE FragTexts(n - 1) \cup {t \o f : t \in FragTexts(n - 1), f \in EntityFrags}

EntityTexts == {SpecExampleText} \cup FragTexts(MaxFrags)

InitEntities ==
    /\ pc = "ent_regex"
    /\ \E env_key \in {NoKey, "sk-env"} : Constructed(env_key)
    /\ NoCall
    /\ options \in [{"indonesian_mode"} -> BOOLEAN]
    /\ content \in EntityTexts
    /\ entities = EmptyBundle
    /\ NoTableScan

\* "if not content: return entities", then the regex pass
EntRegex ==
    /\ pc = "ent_regex"
    /\ IF content = ""
       THEN pc' = "ent_done" /\ UNCHANGED entities
       ELSE /\ pc' = "ent_ai"
            /\ entities' = IF options.indonesian_mode
                           THEN RegexPass(entities, content)
                           ELSE entities
    /\ UNCHANGED <<callVars, cfgVars, content, ai_reply, tblVars>>

\* "if self.openai_client:", the request and the merge
EntAI ==
    /\ pc = "ent_ai"
    /\ \E reply \in RepliesTo(EntityRequestIssued(content, openai_client[proc]),
                              EntityReplies) :
          /\ ai_reply' = reply
          /\ requests' = IF reply # NoReply
                         THEN Append(requests, Request("entities"))
                         ELSE requests
          /\ entities' = AIPass(entities, openai_client[proc], reply)
    /\ pc' = "ent_clean"
    /\ UNCHANGED <<proc, file, options, metadata, result, raised, fault, cfgVars,
                   content, tblVars>>

\* "Clean duplicates" and the return; an exception here leaves _extract_entities
EntClean ==
    /\ pc = "ent_clean"
    /\ \E r \in {CleanDuplicates(entities)} :
          IF r.ok
          THEN /\ entities' = r.value
               /\ pc' = "ent_done"
               /\ UNCHANGED <<raised, fault>>
          ELSE /\ pc' = "ent_raised"
               /\ raised' = TRUE
               /\ fault' = r.exc
               /\ UNCHANGED entities
    /\ UNCHANGED <<proc, file, options, metadata, result, requests, cfgVars, content,
                   ai_reply, tblVars>>

NextEntities == EntRegex \/ EntAI \/ EntClean

SpecEntities == InitEntities /\ [][NextEntities]_vars

(***************************************************************************)
(* _extract_tables_from_content on its own, one action per line, over      *)
(* texts of a few lines and over the texts _extract_docx produces.         *)
(***************************************************************************)
TableLines == {"", "a|b|c", "d | e |f", "g  h", "|i", "j\tk "}

RECURSIVE LineSeqs(_)
LineSeqs(n) ==
    IF n = 0 THEN {<<>>}
    ELSE LineSeqs(n - 1) \cup {Append(q, l) : q \in LineSeqs(n - 1), l \in TableLines}

LineTexts == {StrJoin(q, "\n") : q \in LineSeqs(MaxLines)}

PlainCells == {"A", "b2"}

\* DOCX files with one 2x2 table of plain alphanumeric cells
TableDocs ==
    { [File("/tmp/t.docx") EXCEPT !.paragraphs = ps,
                                  !.tables = << <<<<c[1], c[2]>>, <<c[3], c[4]>>>> >>] :
        ps \in {<<>>, <<"Intro">>}, c \in [1..4 -> PlainCells] }

InitTables ==
    /\ pc = "tbl_split"
    /\ Constructed(NoKey)
    /\ proc = "p1"
    /\ metadata = <<>>
    /\ result = <<>>
    /\ raised = FALSE
    /\ fault = ""
    /\ requests = <<>>
    /\ ai_reply = NoReply
    /\ options = <<>>
    /\ entities = EmptyBundle
    /\ NoTableScan
    /\ \/ file = NoFile /\ content \in LineTexts
       \/ file \in TableDocs /\ content = ExtractContent(file).value.content

\* lines = content.split('\n')
TblSplit ==
    /\ pc = "tbl_split"
    /\ lines' = StrSplit(content, "\n")
    /\ line_no' = 1
    /\ current_table' = <<>>
    /\ tables' = <<>>
    /\ pc' = "tbl_loop"
    /\ UNCHANGED <<callVars, cfgVars, content, ai_reply, entities>>

\* one iteration of "for line in lines"
TblLine ==
    /\ pc = "tbl_loop"
    /\ line_no <= Len(lines)
    /\ \E st \in {TableLineStep([tables |-> tables, current_table |-> current_table],
                                lines[line_no])} :
          /\ tables' = st.tables
          /\ current_table' = st.current_table
    /\ line_no' = line_no + 1
    /\ UNCHANGED <<pc, lines, callVars, cfgVars, content, ai_reply, entities>>

\* "Don't forget the last table", and the return
TblFinish ==
    /\ pc = "tbl_loop"
    /\ line_no > Len(lines)
    /\ tables' = FlushTable(tables, current_table)
    /\ pc' = "tbl_done"
    /\ UNCHANGED <<lines, line_no, current_table, callVars, cfgVars, content, ai_reply,
                   entities>>

NextTables == TblSplit \/ TblLine \/ TblFinish

SpecTables == InitTables /\ [][NextTables]_vars

(***************************************************************************)
(* _classify_document on its own, over texts of a few words.               *)
(***************************************************************************)
ClassifyWords == {"Invoice", "kontrak", "surat", "Halo", "Tagihan faktur bill"}

RECURSIVE WordSeqs(_)
WordSeqs(n) ==
    IF n = 0 THEN {<<>>}
    ELSE WordSeqs(n - 1) \cup {Append(q, w) : q \in WordSeqs(n - 1), w \in ClassifyWords}

ClassifyTexts == {StrJoin(q, " ") : q \in WordSeqs(MaxWords)}

ClassifyFilenames == {"doc.txt", "Invoice.pdf", "surat_kontrak.docx"}

InitClassify ==
    /\ pc = "cls_call"
    /\ Constructed(NoKey)
    /\ proc = "p1"
    /\ file = NoFile
    /\ metadata \in [{"filename"} -> ClassifyFilenames]
    /\ result = <<>>
    /\ raised = FALSE
    /\ fault = ""
    /\ requests = <<>>
    /\ ai_reply = NoReply
    /\ options = <<>>
    /\ content \in ClassifyTexts
    /\ entities = EmptyBundle
    /\ NoTableScan

Classify ==
    /\ pc = "cls_call"
    /\ result' = ClassifyDocument(content, DictGet(metadata, "filename", ""))
    /\ pc' = "cls_done"
    /\ UNCHANGED <<proc, file, options, metadata, raised, fault, requests, cfgVars,
                   content, ai_reply, entities, tblVars>>

NextClassify == Classify

SpecClassify == InitClassify /\ [][NextClassify]_vars

(***************************************************************************)
(* set_openai_key between calls of process_document, on two instances of   *)
(* the one process.                                                        *)
(***************************************************************************)
CredKeys == {"sk-1", "sk-2"}

CredFile == [File("/tmp/invoice.pdf") EXCEPT
               !.pages = << [text |-> "Invoice Rp 5.000", tables |-> <<>>] >>]

\* openai.api_key = api_key; self.openai_client = openai
SetOpenaiKey(p, key) ==
    /\ pc = "Idle"
    /\ api_key' = key
    /\ openai_client' = [openai_client EXCEPT ![p] = TRUE]
    /\ UNCHANGED <<pc, callVars, content, ai_reply, entities, tblVars>>

NextCred ==
    \/ \E p \in Procs, key \in CredKeys : SetOpenaiKey(p, key)
    \/ \E p \in Procs : Call(p, CredFile, <<>>)
    \/ Extract
    \/ StepEntities
    \/ StepSummary
    \/ StepTables
    \/ StepClassify
    \/ Return

SpecCred == Init /\ [][NextCred]_vars

(***************************************************************************)
(* _generate_summary on its own: the request, then the return.             *)
(***************************************************************************)
SummaryWords == {"URGENT", "baik", "gagal", "Masalah", "Sukses."}

SummaryTexts == {StrJoin(q, " ") : q \in UNION {[1..n -> SummaryWords] : n \in 0..MaxWords}}

InitSummary ==
    /\ pc = "sum_call"
    /\ \E env_key \in {NoKey, "sk-env"} : Constructed(env_key)
    /\ NoCall
    /\ options = <<>>
    /\ content \in SummaryTexts
    /\ entities = EmptyBundle
    /\ NoTableScan

\* "if not self.openai_client or not content", else ChatCompletion.create
SumRequest ==
    /\ pc = "sum_call"
    /\ IF SummaryRequestIssued(content, openai_client[proc])
       THEN /\ \E reply \in SummaryReplies : ai_reply' = reply
            /\ requests' = Append(requests, Request("summary"))
            /\ pc' = "sum_reply"
            /\ UNCHANGED result
       ELSE /\ result' = GenerateSummary(content, openai_client[proc], NoReply)
            /\ pc' = "sum_done"
            /\ UNCHANGED <<requests, ai_reply>>
    /\ UNCHANGED <<proc, file, options, metadata, raised, fault, cfgVars, content,
                   entities, tblVars>>

\* json.loads of the reply, or the except branch
SumReturn ==
    /\ pc = "sum_reply"
    /\ result' = GenerateSummary(content, openai_client[proc], ai_reply)
    /\ pc' = "sum_done"
    /\ UNCHANGED <<proc, file, options, metadata, raised, fault, requests, cfgVars,
                   content, ai_reply, entities, tblVars>>

NextSummary == SumRequest \/ SumReturn

SpecSummary == InitSummary /\ [][NextSummary]_vars

(***************************************************************************)
(* The properties.                                                         *)
(***************************************************************************)

\* C1: process_document never raises to its caller: whenever an exception was
\* raised during extraction or an enrichment step of the call (fault records its
\* message), nothing has propagated to the caller and the call has ended with a
\* mapping whose only key is `error`, carrying that message.
C1_NeverRaises ==
    /\ ~raised
    /\ fault # "" => /\ pc = "Failed"
                     /\ DOMAIN result = {"error"}
                     /\ result.error = fault

\* an exception of an enrichment step (content was extracted) reached the boundary
C1_Witness ==
    /\ pc = "Failed"
    /\ fault # ""
    /\ content # ""
    /\ DOMAIN result = {"error"}

FlagSet(o, key) == key \notin DOMAIN o \/ o[key]

\* the keys of a success mapping for an options dict
SuccessKeys(o) ==
    {"content", "metadata", "extracted_at", "classification"}
        \cup (IF FlagSet(o, "extract_entities") THEN {"entities"} ELSE {})
        \cup (IF FlagSet(o, "generate_summary") THEN {"summary"} ELSE {})
        \cup (IF FlagSet(o, "extract_tables") THEN {"tables"} ELSE {})

\* C2: enrichment steps are isolated: a call whose extraction produced non-empty
\* text always ends in Done, never in Failed, and the fields of every enabled
\* step are present in the result it returns.
C2_EnrichmentIsolated ==
    (pc \in {"Done", "Failed"} /\ content # "") =>
        /\ pc = "Done"
        /\ SuccessKeys(options) \subseteq DOMAIN result

\* extraction of the call's file returned normally with an empty text, and the
\* call is past its extraction step
EmptyExtraction ==
    /\ pc \notin {"Idle", "Extracting"}
    /\ ExtractContent(file).ok
    /\ ExtractContent(file).value.content = ""

\* C3 (as stated): when extraction returns an empty text the call returns exactly
\* {error: "no content extracted"}.
C3_Original ==
    EmptyExtraction => result = [error |-> "no content extracted"]

\* C3 (amended): when extraction returns an empty text the call runs no
\* enrichment step, issues no AI request, and returns exactly
\* {error: "No content extracted from document"}.
C3_EmptyContent ==
    EmptyExtraction =>
        /\ pc = "Failed"
        /\ result = [error |-> "No content extracted from document"]
        /\ requests = <<>>
        /\ ai_reply = NoReply
        /\ entities = EmptyBundle
        /\ tables = <<>>

\* an empty PDF was processed with AI configured and every step enabled
C3_Witness ==
    /\ EmptyExtraction
    /\ file.path = "/tmp/empty.pdf"
    /\ openai_client[proc]
    /\ options = <<>>

\* C4: every value process_document returns is either a mapping with the only
\* key `error`, or a mapping that has content, metadata, extracted_at and
\* classification, and entities, summary, tables exactly when the option flag
\* of each (default true) is set; `error` never comes with another key.
C4_ResultShape ==
    pc \in {"Done", "Failed"} =>
        /\ \/ DOMAIN result = {"error"}
           \/ DOMAIN result = SuccessKeys(options)
        /\ pc = "Done" => DOMAIN result = SuccessKeys(options)
        /\ pc = "Failed" => DOMAIN result = {"error"}

\* a success with flags given: summary asked for, entities and tables not
C4_Witness ==
    /\ pc = "Done"
    /\ options # <<>>
    /\ DOMAIN result = {"content", "metadata", "extracted_at", "classification",
                        "summary"}

Leaves(b) ==
    {b[k] : k \in ListKeys} \cup {b.contact_info.emails, b.contact_info.phones}

\* C5: for every text, every indonesian_mode and every outcome of the AI call,
\* _extract_entities returns without raising, and no leaf collection of the
\* bundle it returns holds a duplicate.
C5_RecognizeSafe ==
    pc \in {"ent_done", "ent_raised"} =>
        /\ pc = "ent_done"
        /\ ~raised
        /\ \A leaf \in Leaves(entities) : NoDuplicates(leaf)

\* C6: for the example text, indonesian_mode true and no AI capability, the
\* bundle has "Rp 150.000" in monetary_amounts, "081234567890" in
\* contact_info.phones and "a@b.com" in contact_info.emails, and the heuristic
\* summary's urgency_level is "HIGH".
C6_SpecExample ==
    (/\ pc = "ent_done"
     /\ content = SpecExampleText
     /\ options.indonesian_mode
     /\ ~openai_client[proc]) =>
        /\ Str("Rp 150.000") \in SeqElems(entities.monetary_amounts)
        /\ Str("081234567890") \in SeqElems(entities.contact_info.phones)
        /\ Str("a@b.com") \in SeqElems(entities.contact_info.emails)
        /\ GenerateSimpleSummary(content).urgency_level = "HIGH"

\* C7: the text _extract_docx produces for a document with one 2x2 table of
\* plain alphanumeric cells, passed to _extract_tables_from_content, gives back
\* one table with the same rows and the same four cells.
C7_DocxRoundTrip ==
    (pc = "tbl_done" /\ file \in TableDocs) => tables = file.tables

\* C8: every table _extract_tables_from_content holds or returns has at least 2
\* rows, every row at least 2 cells, and no cell is empty or begins or ends
\* with whitespace.
C8_TableShape ==
    \A t \in 1..Len(tables) :
        /\ Len(tables[t]) >= 2
        /\ \A r \in 1..Len(tables[t]) :
              /\ Len(tables[t][r]) >= 2
              /\ \A c \in 1..Len(tables[t][r]) :
                    LET cell == tables[t][r][c]
                    IN  /\ cell # ""
                        /\ Ch(cell, 1) \notin Whitespace
                        /\ Ch(cell, Len(cell)) \notin Whitespace

\* a table was returned from a text with a padded row, a one-cell row and a
\* row that ends in whitespace
C8_Witness ==
    /\ pc = "tbl_done"
    /\ tables # <<>>
    /\ {"d | e |f", "|i", "j\tk "} \subseteq SeqElems(lines)

NoSeparator(line) ==
    \A i \in 1..Len(line) :
        /\ Ch(line, i) \notin {"|", "\t"}
        /\ ~(i < Len(line) /\ Ch(line, i) = " " /\ Ch(line, i + 1) = " ")

\* the cells, in text order, of the pipe-delimited lines of three cells
PipeCells(line) ==
    IF line = "a|b|c" THEN <<"a", "b", "c">>
    ELSE IF line = "d | e |f" THEN <<"d", "e", "f">>
    ELSE <<>>

\* C9: on a text with no line containing a pipe, a tab or two consecutive
\* spaces _extract_tables_from_content returns the empty list; on exactly 3
\* pipe-delimited lines of 3 cells each followed by a blank line it returns
\* exactly one table of 3 rows by 3 columns, rows and cells in text order.
C9_Reconstruct ==
    pc = "tbl_done" =>
        /\ (\A k \in 1..Len(lines) : NoSeparator(lines[k])) => tables = <<>>
        /\ (/\ Len(lines) = 4
            /\ lines[4] = ""
            /\ \A k \in 1..3 : PipeCells(lines[k]) # <<>>) =>
               tables = << [k \in 1..3 |-> PipeCells(lines[k])] >>

\* three pipe-delimited lines, one of them padded, and a blank line
C9_Witness ==
    /\ pc = "tbl_done"
    /\ lines = <<"a|b|c", "d | e |f", "a|b|c", "">>
    /\ Len(tables) = 1

NoKeyword(text) ==
    \A k \in 1..Len(Classifications) :
        \A j \in 1..Len(Classifications[k].keywords) :
            ~StrContains(StrLower(text), Classifications[k].keywords[j])

\* C10: when no classification keyword occurs in the text or the filename,
\* _classify_document returns category `unknown` with confidence 0.
C10_UnknownWhenNoKeyword ==
    (/\ pc = "cls_done"
     /\ NoKeyword(content)
     /\ NoKeyword(metadata.filename)) =>
        /\ result.category = "unknown"
        /\ result.confidence.num = 0

CategoryOrder ==
    <<"invoice", "contract", "receipt", "letter", "report", "certificate",
      "id_document">>

RECURSIVE SumTo(_, _)
SumTo(f, n) == IF n = 0 THEN 0 ELSE f[n] + SumTo(f, n - 1)

\* occurrences of the k-th category's keywords in the lower-cased text, plus
\* twice their occurrences in the lower-cased filename
OccurrenceScore(k, text, filename) ==
    LET kws == Classifications[k].keywords
    IN  SumTo([j \in 1..Len(kws) |->
                  StrCount(StrLower(text), kws[j])
                  + 2 * StrCount(StrLower(filename), kws[j])], Len(kws))

CategoryScores(text, filename) ==
    [k \in 1..Len(CategoryOrder) |-> OccurrenceScore(k, text, filename)]

\* C11: _classify_document returns a category whose score (keyword occurrences
\* in the lower-cased text plus twice those in the lower-cased filename) is
\* maximal, and of the categories sharing the maximal score the one declared
\* first in the order invoice, contract, receipt, letter, report, certificate,
\* id_document.
C11_FirstMaximalCategory ==
    pc = "cls_done" =>
        LET sc == CategoryScores(content, metadata.filename)
        IN  \E k \in 1..Len(CategoryOrder) :
               /\ Classifications[k].doc_type = CategoryOrder[k]
               /\ result.category = CategoryOrder[k]
               /\ \A j \in 1..Len(CategoryOrder) : sc[j] <= sc[k]
               /\ \A j \in 1..(k - 1) : sc[j] < sc[k]

\* contract and letter tie at score 1: contract, declared first, wins
C11_Witness ==
    /\ pc = "cls_done"
    /\ content = "kontrak surat"
    /\ metadata.filename = "doc.txt"
    /\ result.category = "contract"

WinningScore(text, filename) ==
    LET sc == CategoryScores(text, filename)
    IN  CHOOSE m \in {sc[k] : k \in DOMAIN sc} : \A k \in DOMAIN sc : sc[k] <= m

\* C12: the confidence _classify_document returns is min(winning_score / 10,
\* 1.0): it lies in [0, 1], is 1.0 for every winning score of 10 or more, and
\* for ("Invoice Invoice Invoice", "doc.txt") the category is invoice, the
\* score 3 and the confidence 0.3.
C12_Confidence ==
    pc = "cls_done" =>
        LET w == WinningScore(content, metadata.filename)
            conf == result.confidence
        IN  /\ conf.den = 10
            /\ 0 <= conf.num /\ conf.num <= conf.den
            /\ w >= 10 => conf.num = conf.den
            /\ w < 10 => conf.num = w
            /\ (content = "Invoice Invoice Invoice" /\ metadata.filename = "doc.txt") =>
                   /\ result.category = "invoice"
                   /\ w = 3
                   /\ conf.num = 3

\* a winning score above 10 with the confidence saturated at 1.0
C12_Witness ==
    /\ pc = "cls_done"
    /\ WinningScore(content, metadata.filename) > 10
    /\ result.confidence = [num |-> 10, den |-> 10]

\* C13: with an AI capability configured, when the AI call of
\* _generate_summary raises, times out or returns text that is not JSON,
\* _generate_summary does not raise and returns exactly what
\* _generate_simple_summary returns for the same text.
C13_SummaryFallback ==
    (/\ pc = "sum_done"
     /\ openai_client[proc]
     /\ ai_reply.kind \in {"error", "text"}) =>
        /\ ~raised
        /\ fault = ""
        /\ result = GenerateSimpleSummary(content)

\* the AI reply was not JSON and the heuristic summary of the text came back
C13_Witness ==
    /\ pc = "sum_done"
    /\ openai_client[proc]
    /\ ai_reply = ReplyNotJson
    /\ content = "URGENT gagal"
    /\ Len(requests) = 1

\* the value of a field of a JSON object, as [vt, sv, items]
FieldOf(v, key) ==
    LET k == CHOOSE k \in 1..Len(v.pairs) : v.pairs[k].key = key
    IN  v.pairs[k]

FieldNames(v) == {v.pairs[k].key : k \in 1..Len(v.pairs)}

IsSummaryResult(v) ==
    /\ v.isdict
    /\ FieldNames(v) = {"executive_summary", "key_points", "urgency_level", "sentiment"}
    /\ FieldOf(v, "executive_summary").vt = "str"
    /\ FieldOf(v, "key_points").vt = "list"
    /\ FieldOf(v, "urgency_level").vt = "str"
    /\ FieldOf(v, "urgency_level").sv \in {"LOW", "MEDIUM", "HIGH", "CRITICAL"}
    /\ FieldOf(v, "sentiment").vt = "str"
    /\ FieldOf(v, "sentiment").sv \in {"POSITIVE", "NEUTRAL", "NEGATIVE"}

\* C14: every value _generate_summary returns is a SummaryResult (the four
\* fields, urgency_level and sentiment within their enums), and an AI reply
\* that parses as JSON but is not one is replaced by the heuristic summary.
C14_SummarySchema ==
    pc = "sum_done" =>
        /\ IsSummaryResult(result)
        /\ (ai_reply.kind = "json" /\ ~IsSummaryResult(JsonValue(ai_reply))) =>
               result = GenerateSimpleSummary(content)

\* C18: for every non-empty text the heuristic summary has urgency_level HIGH
\* if one of urgent, penting, segera, deadline, asap appears in it whatever the
\* case and LOW otherwise, and sentiment POSITIVE if more positive than
\* negative keywords are hit, NEGATIVE if fewer, NEUTRAL on a tie.
C18_Heuristic ==
    (pc = "sum_done" /\ ~openai_client[proc] /\ content # "") =>
        LET low == StrLower(content)
            urgent == \E w \in {"urgent", "penting", "segera", "deadline", "asap"} :
                          StrContains(low, w)
            pos == Cardinality({w \in {"good", "baik", "sukses", "berhasil", "positif"} :
                                   StrContains(low, w)})
            neg == Cardinality({w \in {"bad", "buruk", "gagal", "masalah", "negatif"} :
                                   StrContains(low, w)})
        IN  /\ result.isdict
            /\ FieldOf(result, "urgency_level").sv = (IF urgent THEN "HIGH" ELSE "LOW")
            /\ FieldOf(result, "sentiment").sv =
                   (IF pos > neg THEN "POSITIVE"
                    ELSE IF pos < neg THEN "NEGATIVE" ELSE "NEUTRAL")

\* an upper-case urgency word, and no positive against two negative hits
C18_Witness ==
    /\ pc = "sum_done"
    /\ ~openai_client[proc]
    /\ content = "URGENT gagal Masalah"
    /\ FieldOf(result, "urgency_level").sv = "HIGH"
    /\ FieldOf(result, "sentiment").sv = "NEGATIVE"

RequestsOf(step) == {k \in 1..Len(requests) : requests[k].step = step}

\* C15: no AI call is retried: within one call of process_document at most one
\* AI request is issued by entity recognition and at most one by summarization,
\* whatever the outcome of either, and with no AI capability configured no AI
\* request is issued at all.
C15_NoRetry ==
    /\ Cardinality(RequestsOf("entities")) <= 1
    /\ Cardinality(RequestsOf("summary")) <= 1
    /\ Len(requests) <= 2
    /\ \A k \in 1..Len(requests) : requests[k].step \in {"entities", "summary"}
    /\ ~openai_client[proc] => requests = <<>>

\* both steps made their one request; the summary request failed and the
\* call went on without another
C15_Witness ==
    /\ pc = "Done"
    /\ Len(requests) = 2
    /\ requests[1].step = "entities"
    /\ requests[2].step = "summary"
    /\ ai_reply = ReplyNotJson

\* C16: the AI credential is process-wide and last-write-wins: once a
\* credential is set, through whichever instance, every AI-enabled step of a
\* later call of process_document on any instance uses the AI capability with
\* the credential set last.
C16_LastWriteWins ==
    (api_key # NoKey /\ content # "") =>
        /\ pc \in {"Summary", "Tables", "Classify", "Done"} =>
               \E k \in 1..Len(requests) :
                   requests[k] = [step |-> "entities", key |-> api_key]
        /\ pc \in {"Tables", "Classify", "Done"} =>
               \E k \in 1..Len(requests) :
                   requests[k] = [step |-> "summary", key |-> api_key]

\* the content string of a parser failure, by file type
ParserErrorPrefix(file_type) ==
    IF file_type = ".pdf" THEN "Error extracting PDF: "
    ELSE IF file_type \in {".docx", ".doc"} THEN "Error extracting DOCX: "
    ELSE "Error processing image: "

\* the call's file has a supported extension and its format parser throws, and
\* the call is past its extraction step
ParserThrew ==
    /\ pc \notin {"Idle", "Extracting"}
    /\ file.throws # "none"
    /\ ~file.missing

AIFailed(reply) ==
    \/ reply.kind \in {"error", "text"}
    \/ reply.kind = "json" /\ ~reply.isdict
    \/ /\ reply.kind = "json"
       /\ \E k \in 1..Len(reply.pairs) :
             reply.pairs[k].key = "contact_info" /\ reply.pairs[k].vt = "list"

\* two bundles hold the same entries in every category, as sets
SameAsSets(b1, b2) ==
    /\ \A key \in ListKeys : SeqElems(b1[key]) = SeqElems(b2[key])
    /\ \A sub \in {"emails", "phones"} :
          SeqElems(b1.contact_info[sub]) = SeqElems(b2.contact_info[sub])

\* C19: when the AI step of _extract_entities fails in any way, the returned
\* bundle equals, as sets per category, the bundle of the regex pass alone;
\* the bundle never gains a category; and with indonesian_mode false the regex
\* pass contributes nothing.
C19_AIFailureKeepsRegex ==
    pc = "ent_done" =>
        /\ DOMAIN entities = DOMAIN EmptyBundle
        /\ (openai_client[proc] /\ AIFailed(ai_reply)) =>
               SameAsSets(entities,
                          IF options.indonesian_mode
                          THEN RegexPass(EmptyBundle, content)
                          ELSE EmptyBundle)
        /\ (~options.indonesian_mode /\ ~openai_client[proc]) => entities = EmptyBundle

\* what a flush does: the buffer is emitted if it holds at least 2 rows
Flushed(tbls, buffer) == IF Len(buffer) >= 2 THEN Append(tbls, buffer) ELSE tbls

\* one line is consumed, or the loop ends: the buffer is flushed only by a line
\* with no pipe, no tab and no two spaces (and at the end of the text); any
\* other line leaves the tables alone and either appends one row of at least
\* 2 cells to the buffer or, having fewer than 2 cells, leaves the buffer too
FlushRule ==
    /\ (pc = "tbl_loop" /\ line_no' = line_no + 1) =>
          IF NoSeparator(lines[line_no])
          THEN /\ tables' = Flushed(tables, current_table)
               /\ current_table' = <<>>
          ELSE /\ tables' = tables
               /\ \/ current_table' = current_table
                  \/ /\ Len(current_table') = Len(current_table) + 1
                     /\ SubSeq(current_table', 1, Len(current_table)) = current_table
                     /\ Len(current_table'[Len(current_table')]) >= 2
               /\ lines[line_no] = "|i" => current_table' = current_table
               /\ lines[line_no] = "a|b|c" =>
                      current_table' = Append(current_table, <<"a", "b", "c">>)
    /\ (pc = "tbl_loop" /\ pc' = "tbl_done") =>
          tables' = Flushed(tables, current_table)

\* C20: in _extract_tables_from_content the open buffer is flushed only by a
\* line with no pipe, no tab and no run of two spaces; a candidate line of
\* fewer than 2 non-empty cells neither appends nor flushes, so the rows on
\* either side of it share a table; each flush emits the buffer only if it
\* holds at least 2 rows, and always resets it.
C20_FlushRule == [][FlushRule]_vars

\* the rows before and after the one-cell line "|i" came out as one table
C20_Witness ==
    /\ pc = "tbl_done"
    /\ lines = <<"a|b|c", "|i", "d | e |f">>
    /\ tables = << << <<"a", "b", "c">>, <<"d", "e", "f">> >> >>

=============================================================================
